---- MODULE Spec2Model ----
(***************************************************************************)
(* Focus_Area: a full-screen veil with rectangular cut-outs (focus areas). *)
(* The model follows src/focus_area.py: class FocusArea (one cut-out, its  *)
(* move handle and its drag state) and class Focus_AreaWindow (the editor: *)
(* draw gesture, opacity/visibility, config save/load).                    *)
(*                                                                         *)
(* Number representation.  Opacities are floats in the source that only    *)
(* ever hold multiples of 0.01; they are modelled as integers in           *)
(* hundredths (1.0 = 100, 0.55 = 55, 0.3 = 30).  Canvas coordinates are    *)
(* integers (event.x / event.y); the move handle's centre                  *)
(* y1 + height * 0.382 is not, so every y of a handle is kept in           *)
(* thousandths of a pixel (Scale).                                         *)
(*                                                                         *)
(* Host (Tk) behaviour the handlers rely on: a press is delivered to the   *)
(* topmost canvas item under the pointer and then to the canvas itself;    *)
(* while the button is held, motion and release go to the item that was    *)
(* pressed and then to the canvas; a withdrawn window gets no pointer      *)
(* events, and may or may not get key events.                              *)
(***************************************************************************)
EXTENDS Integers, Sequences, FiniteSets, TLC

\* ---- program constants -------------------------------------------------
MIN_SIZE == 10
move_handle_size == 8
resize_handle_size == 10
move_handle_buffer == 4
peek_opacity == 30
DefaultVeilOpacity == 100
DefaultPeekThroughOpacity == 55
WheelStep == 1
MinOpacity == 1
MaxOpacity == 100
Golden == 382
Scale == 1000

\* ---- bounds of the exploration -----------------------------------------
MaxAreas == 2
MaxCoord == 40
MaxGestures == 3
MaxQueue == 2
MaxPosted == 3
MaxNested == 2

transparency_key == "#FF00FF"

Min(a, b) == IF a < b THEN a ELSE b
Max(a, b) == IF a > b THEN a ELSE b
Abs(a) == IF a < 0 THEN -a ELSE a

VARIABLES
  veil_color, veil_opacity, peek_through_opacity, show_quick_start_on_startup,
  is_visible, is_transparent_for_editing, is_peeking,
  alpha,          \* the value last passed to root.attributes('-alpha', ...)
  focus_areas,    \* Focus_AreaWindow.focus_areas, in creation order
  current,        \* FocusArea.current: an index into focus_areas, 0 for None
  draw_start_x, draw_start_y,
  drawing_rect,   \* <<>> for None, else the preview's <<x1, y1, x2, y2>>
  grab,           \* what the held mouse button was pressed on
  shift_held,     \* whether a Shift key is physically down
  config_file,    \* content of focus_area_config.json, NoFile when absent
  ev,             \* the name of the handler that ran last
  gestures,       \* how many button presses the run has seen (exploration only)
  after_queue,    \* callbacks handed to root.after(0, ...), oldest first
  console_visible,
  running,        \* the main loop runs (root not yet destroyed)
  posted,         \* toggle requests the tray thread has posted (history)
  toggled,        \* toggle requests the UI thread has carried out (history)
  confirming      \* activations of quit_application waiting in wait_window

vars == <<veil_color, veil_opacity, peek_through_opacity, show_quick_start_on_startup,
          is_visible, is_transparent_for_editing, is_peeking, alpha, focus_areas,
          current, draw_start_x, draw_start_y, drawing_rect, grab, shift_held,
          config_file, ev, gestures, after_queue, console_visible, running,
          posted, toggled, confirming>>

\* What the tray hand-off adds to the window's own fields.
trayVars == <<after_queue, console_visible, running, posted, toggled,
              confirming>>

\* A handler run by the main loop for an event of the veil window: the loop
\* is running, no confirmation dialog holds the grab (dialog.grab_set()),
\* and the handler leaves the callbacks waiting in the after queue alone.
uiFrame == running /\ confirming = 0 /\ UNCHANGED trayVars

NoFile == [exists |-> FALSE]
NoGrab == [kind |-> "none", idx |-> 0]
\* Only the handler's name is recorded.
Event(n, x, y) == n

\* ---- class FocusArea ---------------------------------------------------
Modes == {"move", "n", "s", "e", "w", "ne", "nw", "se", "sw"}
ResizeModes == Modes \ {"move"}

\* The characters of each mode string: Python's `"n" in self.resize_mode`.
ModeLetters(m) ==
  CASE m = "move" -> {"m", "o", "v", "e"}
    [] m = "n" -> {"n"}
    [] m = "s" -> {"s"}
    [] m = "e" -> {"e"}
    [] m = "w" -> {"w"}
    [] m = "ne" -> {"n", "e"}
    [] m = "nw" -> {"n", "w"}
    [] m = "se" -> {"s", "e"}
    [] m = "sw" -> {"s", "w"}
    [] OTHER -> {}

\* canvas.create_rectangle keeps the lower coordinate of each axis first.
\* Faulty variant: the item keeps its corners in the order given.
CanvasRectAsGiven(xa, ya, xb, yb) ==
  [x1 |-> xa, y1 |-> ya, x2 |-> xb, y2 |-> yb]

CanvasRect(xa, ya, xb, yb) ==
  [x1 |-> Min(xa, xb), y1 |-> Min(ya, yb), x2 |-> Max(xa, xb), y2 |-> Max(ya, yb)]

\* y1 + height * 0.382, in thousandths of a pixel.
HandleY(y1, y2) == y1 * Scale + (y2 - y1) * Golden

\* FocusArea.__init__(parent, x, y, width, height)
NewFocusArea(x, y, width, height) ==
  LET r == CanvasRect(x, y, x + width, y + height)
  IN [x1 |-> r.x1, y1 |-> r.y1, x2 |-> r.x2, y2 |-> r.y2,
      hx |-> x, hy |-> y * Scale + height * Golden,
      drag_start_x |-> 0, drag_start_y |-> 0,
      is_dragging |-> FALSE, resize_mode |-> "none"]

\* Faulty variant: the edges and corners are tested before the handle zone.
get_resize_mode_edges_first(fa, event_x, event_y) ==
  LET handle_y == HandleY(fa.y1, fa.y2)
      band == (move_handle_size + move_handle_buffer) * Scale
      handle == resize_handle_size
      near_left == Abs(event_x - fa.x1) < handle
      near_right == Abs(event_x - fa.x2) < handle
      near_top == Abs(event_y - fa.y1 * Scale) < handle * Scale
      near_bottom == Abs(event_y - fa.y2 * Scale) < handle * Scale
  IN IF near_top /\ near_left THEN "nw"
     ELSE IF near_top /\ near_right THEN "ne"
     ELSE IF near_bottom /\ near_left THEN "sw"
     ELSE IF near_bottom /\ near_right THEN "se"
     ELSE IF near_top THEN "n"
     ELSE IF near_bottom THEN "s"
     ELSE IF near_left THEN "w"
     ELSE IF near_right THEN "e"
     ELSE "move"

\* Faulty variant: the handle zone is as high as the handle, without the
\* buffer of 4 pixels.
get_resize_mode_no_buffer(fa, event_x, event_y) ==
  LET handle_y == HandleY(fa.y1, fa.y2)
      band == move_handle_size * Scale
      handle == resize_handle_size
      near_left == Abs(event_x - fa.x1) < handle
      near_right == Abs(event_x - fa.x2) < handle
      near_top == Abs(event_y - fa.y1 * Scale) < handle * Scale
      near_bottom == Abs(event_y - fa.y2 * Scale) < handle * Scale
  IN IF /\ Abs(event_x - fa.x1) < resize_handle_size + 5
        /\ handle_y - band <= event_y
        /\ event_y <= handle_y + band
     THEN "move"
     ELSE IF near_top /\ near_left THEN "nw"
     ELSE IF near_top /\ near_right THEN "ne"
     ELSE IF near_bottom /\ near_left THEN "sw"
     ELSE IF near_bottom /\ near_right THEN "se"
     ELSE IF near_top THEN "n"
     ELSE IF near_bottom THEN "s"
     ELSE IF near_left THEN "w"
     ELSE IF near_right THEN "e"
     ELSE "move"

\* FocusArea.get_resize_mode(event_x, event_y); event_y in thousandths.
get_resize_mode(fa, event_x, event_y) ==
  LET handle_y == HandleY(fa.y1, fa.y2)
      band == (move_handle_size + move_handle_buffer) * Scale
      handle == resize_handle_size
      near_left == Abs(event_x - fa.x1) < handle
      near_right == Abs(event_x - fa.x2) < handle
      near_top == Abs(event_y - fa.y1 * Scale) < handle * Scale
      near_bottom == Abs(event_y - fa.y2 * Scale) < handle * Scale
  IN IF /\ Abs(event_x - fa.x1) < resize_handle_size + 5
        /\ handle_y - band <= event_y
        /\ event_y <= handle_y + band
     THEN "move"
     ELSE IF near_top /\ near_left THEN "nw"
     ELSE IF near_top /\ near_right THEN "ne"
     ELSE IF near_bottom /\ near_left THEN "sw"
     ELSE IF near_bottom /\ near_right THEN "se"
     ELSE IF near_top THEN "n"
     ELSE IF near_bottom THEN "s"
     ELSE IF near_left THEN "w"
     ELSE IF near_right THEN "e"
     ELSE "move"

\* Faulty variant: the handle is left where it was.
update_handle_position_skipped(fa) == fa

\* FocusArea.update_handle_position()
update_handle_position(fa) ==
  [fa EXCEPT !.hx = fa.x1, !.hy = HandleY(fa.y1, fa.y2)]

\* FocusArea.on_handle_press(event)
on_handle_press(fa, ex, ey) ==
  [fa EXCEPT !.drag_start_x = ex, !.drag_start_y = ey,
             !.is_dragging = TRUE, !.resize_mode = "move"]

\* Faulty variant: the anchor stays where the handle was pressed.
on_handle_drag_anchor_kept(fa, ex, ey) ==
  IF fa.is_dragging
  THEN LET dx == ex - fa.drag_start_x
           dy == ey - fa.drag_start_y
       IN [fa EXCEPT !.x1 = fa.x1 + dx, !.y1 = fa.y1 + dy,
                     !.x2 = fa.x2 + dx, !.y2 = fa.y2 + dy,
                     !.hx = fa.hx + dx, !.hy = fa.hy + dy * Scale]
  ELSE fa

\* FocusArea.on_handle_drag(event): moves the rectangle and the handle.
on_handle_drag(fa, ex, ey) ==
  IF fa.is_dragging
  THEN LET dx == ex - fa.drag_start_x
           dy == ey - fa.drag_start_y
       IN [fa EXCEPT !.x1 = fa.x1 + dx, !.y1 = fa.y1 + dy,
                     !.x2 = fa.x2 + dx, !.y2 = fa.y2 + dy,
                     !.hx = fa.hx + dx, !.hy = fa.hy + dy * Scale,
                     !.drag_start_x = ex, !.drag_start_y = ey]
  ELSE fa

\* FocusArea.on_handle_release(event) and FocusArea.on_release(event)
on_release(fa) ==
  [fa EXCEPT !.is_dragging = FALSE, !.resize_mode = "none"]

\* FocusArea.on_press(event)
on_press(fa, ex, ey) ==
  [fa EXCEPT !.drag_start_x = ex, !.drag_start_y = ey,
             !.is_dragging = TRUE,
             !.resize_mode = get_resize_mode(fa, ex, ey * Scale)]

\* The edges a resize step proposes (on_drag, the four `in` tests).
ResizeCandidate(fa, ex, ey) ==
  LET L == ModeLetters(fa.resize_mode)
  IN [x1 |-> IF "w" \in L THEN ex ELSE fa.x1,
      y1 |-> IF "n" \in L THEN ey ELSE fa.y1,
      x2 |-> IF "e" \in L THEN ex ELSE fa.x2,
      y2 |-> IF "s" \in L THEN ey ELSE fa.y2]

\* Faulty variant: the acceptance test without the height.
ResizeAcceptedWidthOnly(c) ==
  c.x2 - c.x1 >= MIN_SIZE

\* Faulty variant: the acceptance test with strict comparisons.
ResizeAcceptedStrict(c) ==
  c.x2 - c.x1 > MIN_SIZE /\ c.y2 - c.y1 > MIN_SIZE

\* The acceptance test of a resize step.
ResizeAccepted(c) ==
  c.x2 - c.x1 >= MIN_SIZE /\ c.y2 - c.y1 >= MIN_SIZE

\* FocusArea.on_drag(event)
on_drag(fa, ex, ey) ==
  IF ~fa.is_dragging THEN fa
  ELSE IF fa.resize_mode = "move"
  THEN LET dx == ex - fa.drag_start_x
           dy == ey - fa.drag_start_y
       IN [fa EXCEPT !.x1 = fa.x1 + dx, !.y1 = fa.y1 + dy,
                     !.x2 = fa.x2 + dx, !.y2 = fa.y2 + dy,
                     !.drag_start_x = ex, !.drag_start_y = ey]
  ELSE IF fa.resize_mode # "none"
  THEN LET c == ResizeCandidate(fa, ex, ey)
       IN IF ResizeAccepted(c)
          THEN update_handle_position(
                 [fa EXCEPT !.x1 = c.x1, !.y1 = c.y1, !.x2 = c.x2, !.y2 = c.y2,
                            !.drag_start_x = ex, !.drag_start_y = ey])
          ELSE fa
  ELSE fa

\* FocusArea.get_coords()
get_coords(fa) == <<fa.x1, fa.y1, fa.x2, fa.y2>>

\* ---- the canvas: which item a pointer position is on --------------------
\* The filled rectangle item (tag "focus_area").
HitRect(fa, px, py) ==
  fa.x1 <= px /\ px <= fa.x2 /\ fa.y1 <= py /\ py <= fa.y2

\* The oval item of radius move_handle_size (tag "move_handle").
\* (The bounding box is tested first, which also keeps the squares small.)
HitHandle(fa, px, py) ==
  /\ Abs(px - fa.hx) <= move_handle_size
  /\ Abs(py * Scale - fa.hy) <= move_handle_size * Scale
  /\ (px - fa.hx) * (px - fa.hx) * Scale * Scale
       + (py * Scale - fa.hy) * (py * Scale - fa.hy)
       <= move_handle_size * move_handle_size * Scale * Scale

\* Faulty variant: only items tagged "focus_area" count, a handle does not.
OverItemRectOnly(px, py) ==
  \E i \in 1..Len(focus_areas) : HitRect(focus_areas[i], px, py)

\* canvas.find_overlapping(x, y, x, y) holds a focus_area or move_handle item.
OverItem(px, py) ==
  \E i \in 1..Len(focus_areas) :
    HitRect(focus_areas[i], px, py) \/ HitHandle(focus_areas[i], px, py)

\* The topmost item under the pointer.  Items stack in creation order and
\* each area's handle is raised above its rectangle when it is created.
TopItem(px, py) ==
  LET hit == {i \in 1..Len(focus_areas) :
                HitRect(focus_areas[i], px, py) \/ HitHandle(focus_areas[i], px, py)}
  IN IF hit = {} THEN [kind |-> "canvas", idx |-> 0]
     ELSE LET i == CHOOSE j \in hit : \A k \in hit : k <= j
          IN IF HitHandle(focus_areas[i], px, py)
             THEN [kind |-> "handle", idx |-> i]
             ELSE [kind |-> "rect", idx |-> i]

RemoveAt(s, i) == [j \in 1..(Len(s) - 1) |-> IF j < i THEN s[j] ELSE s[j + 1]]

\* ---- class Focus_AreaWindow: opacity -----------------------------------
\* update_opacity(): the alpha it leaves on the window.
update_opacity(a, veil, peeking, editing) ==
  IF ~peeking /\ ~editing THEN veil ELSE a

\* set_transparent_for_editing(transparent): the alpha it leaves.
set_transparent_for_editing(transparent, a, veil, peeking) ==
  IF transparent THEN peek_opacity
  ELSE IF ~peeking THEN update_opacity(a, veil, peeking, FALSE)
  ELSE a

\* Faulty variant: a step up is not capped at 1.0.
WheelOpacityNoCeiling(veil, delta) ==
  IF delta > 0 THEN veil + WheelStep
  ELSE Max(MinOpacity, veil - WheelStep)

\* on_mousewheel: the new veil_opacity for event.delta.
WheelOpacity(veil, delta) ==
  IF delta > 0 THEN Min(MaxOpacity, veil + WheelStep)
  ELSE Max(MinOpacity, veil - WheelStep)

\* on_shift_press: the alpha it leaves once peeking is switched on.
ShiftPressAlpha(a, veil, peek) ==
  IF veil > peek THEN peek ELSE a

\* Faulty variant: releasing Shift leaves the window's alpha alone.
ShiftReleaseAlphaKept(a, veil, editing) == a

\* on_shift_release: the alpha it leaves once peeking is switched off.
ShiftReleaseAlpha(a, veil, editing) ==
  IF ~editing THEN veil ELSE a

\* toggle_pause: the alpha set when the veil is shown again.
ResumeAlpha(a, veil) == veil

\* ---- pointer events -----------------------------------------------------
\* The item handler a press runs on the pressed item, if any.
PressItem(t, px, py) ==
  IF t.kind = "handle"
  THEN [focus_areas EXCEPT ![t.idx] = on_handle_press(focus_areas[t.idx], px, py)]
  ELSE IF t.kind = "rect"
  THEN [focus_areas EXCEPT ![t.idx] = on_press(focus_areas[t.idx], px, py)]
  ELSE focus_areas

DragItem(px, py) ==
  IF grab.kind = "handle"
  THEN [focus_areas EXCEPT ![grab.idx] = on_handle_drag(focus_areas[grab.idx], px, py)]
  ELSE IF grab.kind = "rect"
  THEN [focus_areas EXCEPT ![grab.idx] = on_drag(focus_areas[grab.idx], px, py)]
  ELSE focus_areas

ReleaseItem ==
  IF grab.kind \in {"handle", "rect"}
  THEN [focus_areas EXCEPT ![grab.idx] = on_release(focus_areas[grab.idx])]
  ELSE focus_areas

\* The rectangle whose corners are the draw anchor and the pointer.
Preview(px, py) ==
  <<Min(draw_start_x, px), Min(draw_start_y, py),
    Max(draw_start_x, px), Max(draw_start_y, py)>>

\* on_canvas_release: whether the drawn rectangle becomes a focus area.
BigEnough(width, height) == width >= MIN_SIZE /\ height >= MIN_SIZE

\* on_canvas_press / on_canvas_drag / on_canvas_release: a gesture has
\* no anchor when both coordinates of the anchor are 0.
NoAnchor == draw_start_x = 0 /\ draw_start_y = 0

InWindow(fa) ==
  /\ 0 <= fa.x1 /\ fa.x2 <= MaxCoord
  /\ 0 <= fa.y1 /\ fa.y2 <= MaxCoord

\* <Button-1>: the item binding, then Focus_AreaWindow.on_canvas_press.
PressBody(px, py) ==
  /\ is_visible
  /\ grab.kind = "none"
  /\ LET t == TopItem(px, py)
     IN /\ focus_areas' = PressItem(t, px, py)
        /\ current' = IF t.kind = "handle" THEN t.idx ELSE current
        /\ grab' = t
  /\ IF OverItem(px, py)
     THEN UNCHANGED <<draw_start_x, draw_start_y, is_transparent_for_editing, alpha>>
     ELSE /\ draw_start_x' = px
          /\ draw_start_y' = py
          /\ is_transparent_for_editing' = TRUE
          /\ alpha' = set_transparent_for_editing(TRUE, alpha, veil_opacity, is_peeking)
  /\ ev' = Event("press", px, py)
  /\ uiFrame
  /\ UNCHANGED <<veil_color, veil_opacity, peek_through_opacity,
                 show_quick_start_on_startup, is_visible, is_peeking,
                 drawing_rect, shift_held, config_file>>

\* A press outside the exploration's budget of gestures.
Press(px, py) ==
  /\ PressBody(px, py)
  /\ UNCHANGED gestures

\* A press counted against the exploration's budget of gestures.
CountedPress(px, py) ==
  /\ gestures < MaxGestures
  /\ PressBody(px, py)
  /\ gestures' = gestures + 1

\* <B1-Motion>: the item binding, then Focus_AreaWindow.on_canvas_drag.
Drag(px, py) ==
  /\ is_visible
  /\ grab.kind # "none"
  /\ focus_areas' = DragItem(px, py)
  /\ \A i \in 1..Len(focus_areas') : InWindow(focus_areas'[i])
  /\ drawing_rect' = IF NoAnchor THEN drawing_rect ELSE Preview(px, py)
  /\ ev' = Event("drag", px, py)
  /\ UNCHANGED gestures
  /\ uiFrame
  /\ UNCHANGED <<veil_color, veil_opacity, peek_through_opacity,
                 show_quick_start_on_startup, is_visible,
                 is_transparent_for_editing, is_peeking, alpha, current,
                 draw_start_x, draw_start_y, grab, shift_held, config_file>>

\* <ButtonRelease-1>: the item binding, then on_canvas_release.
Release(px, py) ==
  /\ is_visible
  /\ grab.kind # "none"
  /\ grab' = NoGrab
  /\ ev' = Event("release", px, py)
  /\ UNCHANGED gestures
  /\ uiFrame
  /\ IF NoAnchor
     THEN /\ focus_areas' = ReleaseItem
          /\ UNCHANGED <<draw_start_x, draw_start_y, drawing_rect,
                         is_transparent_for_editing, alpha>>
     ELSE /\ LET r == Preview(px, py)
                 width == r[3] - r[1]
                 height == r[4] - r[2]
             IN IF drawing_rect # <<>> /\ BigEnough(width, height)
                THEN /\ Len(focus_areas) < MaxAreas
                     /\ focus_areas' =
                          Append(ReleaseItem, NewFocusArea(r[1], r[2], width, height))
                ELSE focus_areas' = ReleaseItem
          /\ drawing_rect' = <<>>
          /\ draw_start_x' = 0
          /\ draw_start_y' = 0
          /\ is_transparent_for_editing' = FALSE
          /\ alpha' = set_transparent_for_editing(FALSE, alpha, veil_opacity, is_peeking)
  /\ UNCHANGED <<veil_color, veil_opacity, peek_through_opacity,
                 show_quick_start_on_startup, is_visible, is_peeking, current,
                 shift_held, config_file>>

\* <MouseWheel>: on_mousewheel.
MouseWheel(delta) ==
  /\ is_visible
  /\ veil_opacity' = WheelOpacity(veil_opacity, delta)
  /\ alpha' = update_opacity(alpha, veil_opacity', is_peeking, is_transparent_for_editing)
  /\ ev' = Event(IF delta > 0 THEN "wheel_up" ELSE "wheel_down", 0, 0)
  /\ UNCHANGED gestures
  /\ uiFrame
  /\ UNCHANGED <<veil_color, peek_through_opacity, show_quick_start_on_startup,
                 is_visible, is_transparent_for_editing, is_peeking, focus_areas,
                 current, draw_start_x, draw_start_y, drawing_rect, grab,
                 shift_held, config_file>>

\* ---- keyboard -----------------------------------------------------------
\* on_shift_press(event)
on_shift_press ==
  IF ~is_peeking /\ is_visible
  THEN /\ is_peeking' = TRUE
       /\ alpha' = ShiftPressAlpha(alpha, veil_opacity, peek_through_opacity)
  ELSE UNCHANGED <<is_peeking, alpha>>

\* on_shift_release(event)
on_shift_release ==
  IF is_peeking
  THEN /\ is_peeking' = FALSE
       /\ alpha' = ShiftReleaseAlpha(alpha, veil_opacity, is_transparent_for_editing)
  ELSE UNCHANGED <<is_peeking, alpha>>

keyFrame == <<veil_color, veil_opacity, peek_through_opacity,
              show_quick_start_on_startup, is_visible, is_transparent_for_editing,
              focus_areas, current, draw_start_x, draw_start_y, drawing_rect,
              grab, config_file>>

\* <KeyPress-Shift_L/R> delivered to the window (a first press, the other
\* Shift key, or the keyboard's auto-repeat).
ShiftPress ==
  /\ shift_held' = TRUE
  /\ on_shift_press
  /\ ev' = Event("shift_press", 0, 0)
  /\ UNCHANGED gestures
  /\ uiFrame
  /\ UNCHANGED keyFrame

\* <KeyRelease-Shift_L/R> delivered to the window.
ShiftRelease ==
  /\ shift_held
  /\ shift_held' = FALSE
  /\ on_shift_release
  /\ ev' = Event("shift_release", 0, 0)
  /\ UNCHANGED gestures
  /\ uiFrame
  /\ UNCHANGED keyFrame

\* A Shift key pressed or released while the window is withdrawn and the
\* host delivers no key event to it.
ShiftUnseen ==
  /\ ~is_visible
  /\ shift_held' = ~shift_held
  /\ ev' = Event("shift_unseen", 0, 0)
  /\ UNCHANGED gestures
  /\ uiFrame
  /\ UNCHANGED <<is_peeking, alpha>>
  /\ UNCHANGED keyFrame

\* <Control-Shift-X>: on_pause_shortcut (pauses only).
PauseShortcut ==
  /\ shift_held
  /\ is_visible
  /\ grab.kind = "none"
  /\ is_visible' = FALSE
  /\ ev' = Event("pause_shortcut", 0, 0)
  /\ UNCHANGED gestures
  /\ uiFrame
  /\ UNCHANGED <<veil_color, veil_opacity, peek_through_opacity,
                 show_quick_start_on_startup, is_transparent_for_editing,
                 is_peeking, alpha, focus_areas, current, draw_start_x,
                 draw_start_y, drawing_rect, grab, shift_held, config_file>>

\* toggle_pause(event=None), run for the trigger called name.
toggle_pause(name) ==
  /\ is_visible' = ~is_visible
  /\ alpha' = IF is_visible' THEN ResumeAlpha(alpha, veil_opacity) ELSE alpha
  /\ ev' = Event(name, 0, 0)
  /\ UNCHANGED <<veil_color, veil_opacity, peek_through_opacity,
                 show_quick_start_on_startup, is_transparent_for_editing,
                 is_peeking, focus_areas, current, draw_start_x, draw_start_y,
                 drawing_rect, grab, shift_held, config_file>>

\* toggle_pause: canvas double-click, menu entry, tray entries.
TogglePause ==
  /\ grab.kind = "none"
  /\ toggle_pause("toggle_pause")
  /\ UNCHANGED gestures
  /\ uiFrame

\* <Double-Button-1> on the canvas of the visible window: toggle_pause.
DoubleClick ==
  /\ is_visible
  /\ grab.kind = "none"
  /\ toggle_pause("double_click")
  /\ UNCHANGED gestures
  /\ uiFrame

\* Faulty variant: the shortcut resumes a paused veil.
PauseShortcutResuming ==
  /\ shift_held
  /\ ~is_visible
  /\ toggle_pause("pause_shortcut")
  /\ UNCHANGED gestures
  /\ uiFrame

\* <Control-Shift-X> delivered while the window is withdrawn:
\* on_pause_shortcut finds is_visible false and does nothing.
PauseShortcutPaused ==
  /\ shift_held
  /\ ~is_visible
  /\ ev' = Event("pause_shortcut", 0, 0)
  /\ UNCHANGED gestures
  /\ uiFrame
  /\ UNCHANGED <<veil_color, veil_opacity, peek_through_opacity,
                 show_quick_start_on_startup, is_visible,
                 is_transparent_for_editing, is_peeking, alpha, focus_areas,
                 current, draw_start_x, draw_start_y, drawing_rect, grab,
                 shift_held, config_file>>

\* ---- the tray thread and the after queue -----------------------------------
\* The entries of the tray menu and the callback each hands to root.after.
TrayItems == {"show_hide", "pause", "quick_start", "console", "exit"}
TrayCallback(item) ==
  CASE item = "show_hide" -> "toggle_pause"
    [] item = "pause" -> "toggle_pause"
    [] item = "quick_start" -> "show_quick_start"
    [] item = "console" -> "toggle_console"
    [] item = "exit" -> "quit_application"

\* Faulty variant: a single slot, a new request replaces a waiting one.
EnqueueSingleSlot(q, req) == <<req>>

\* root.after(0, req): req joins the callbacks waiting for the main loop.
Enqueue(q, req) == Append(q, req)

editorVars == <<veil_color, veil_opacity, peek_through_opacity,
                show_quick_start_on_startup, is_visible,
                is_transparent_for_editing, is_peeking, alpha, focus_areas,
                current, draw_start_x, draw_start_y, drawing_rect, grab,
                shift_held, config_file, ev, gestures>>

\* The tray thread: tray_toggle_visibility, tray_toggle_pause,
\* tray_show_quick_start, tray_toggle_console, tray_quit.
TrayPost(item) ==
  /\ running
  /\ Len(after_queue) < MaxQueue
  /\ posted < MaxPosted
  /\ after_queue' = Enqueue(after_queue, TrayCallback(item))
  /\ posted' = IF TrayCallback(item) = "toggle_pause" THEN posted + 1 ELSE posted
  /\ UNCHANGED <<console_visible, running, toggled, confirming>>
  /\ UNCHANGED editorVars

\* The main loop runs the oldest waiting callback.  quit_application asks
\* for confirmation; on "yes" the main loop ends.
RunAfter ==
  /\ running
  /\ after_queue # <<>>
  /\ after_queue' = Tail(after_queue)
  /\ UNCHANGED <<posted, gestures>>
  /\ LET req == Head(after_queue)
     IN CASE req = "toggle_pause" ->
               /\ toggle_pause("tray_toggle")
               /\ toggled' = toggled + 1
               /\ UNCHANGED <<console_visible, running, confirming>>
          [] req = "toggle_console" ->
               /\ console_visible' = ~console_visible
               /\ ev' = Event("toggle_console", 0, 0)
               /\ UNCHANGED <<running, toggled, confirming>>
               /\ UNCHANGED <<veil_color, veil_opacity, peek_through_opacity,
                              show_quick_start_on_startup, is_visible,
                              is_transparent_for_editing, is_peeking, alpha,
                              focus_areas, current, draw_start_x, draw_start_y,
                              drawing_rect, grab, shift_held, config_file>>
          [] req = "show_quick_start" ->
               /\ ev' = Event("show_quick_start", 0, 0)
               /\ UNCHANGED <<console_visible, running, toggled, confirming>>
               /\ UNCHANGED <<veil_color, veil_opacity, peek_through_opacity,
                              show_quick_start_on_startup, is_visible,
                              is_transparent_for_editing, is_peeking, alpha,
                              focus_areas, current, draw_start_x, draw_start_y,
                              drawing_rect, grab, shift_held, config_file>>
          [] req = "quit_application" ->
               /\ confirming < MaxNested
               /\ confirming' = confirming + 1
               /\ ev' = Event("quit_application", 0, 0)
               /\ UNCHANGED <<console_visible, running, toggled>>
               /\ UNCHANGED <<veil_color, veil_opacity, peek_through_opacity,
                              show_quick_start_on_startup, is_visible,
                              is_transparent_for_editing, is_peeking, alpha,
                              focus_areas, current, draw_start_x, draw_start_y,
                              drawing_rect, grab, shift_held, config_file>>

\* quit_application after show_confirm_dialog returned: whether the main
\* loop goes on.
ConfirmResult(confirmed) == ~confirmed

\* The user answers the exit confirmation that holds the grab (the one
\* opened last).  OK runs root.quit() and root.destroy(), which ends every
\* wait_window; Cancel ends that activation of quit_application.
ConfirmAnswer(confirmed) ==
  /\ running
  /\ confirming > 0
  /\ running' = ConfirmResult(confirmed)
  /\ confirming' = IF running' THEN confirming - 1 ELSE 0
  /\ ev' = Event(IF confirmed THEN "exit_confirmed" ELSE "exit_cancelled", 0, 0)
  /\ UNCHANGED <<after_queue, console_visible, posted, toggled, gestures>>
  /\ UNCHANGED <<veil_color, veil_opacity, peek_through_opacity,
                 show_quick_start_on_startup, is_visible,
                 is_transparent_for_editing, is_peeking, alpha, focus_areas,
                 current, draw_start_x, draw_start_y, drawing_rect, grab,
                 shift_held, config_file>>

\* ---- menu commands ------------------------------------------------------
\* Menu commands are picked with the mouse on the visible window, between
\* gestures.
MenuOpen == is_visible /\ grab.kind = "none"

\* set_opacity_dialog with the dialog's result (an integer 1..100).
SetOpacityDialog(result) ==
  /\ MenuOpen
  /\ veil_opacity' = result
  /\ alpha' = IF ~is_peeking /\ ~is_transparent_for_editing THEN veil_opacity' ELSE alpha
  /\ ev' = Event("set_opacity", 0, 0)
  /\ UNCHANGED gestures
  /\ uiFrame
  /\ UNCHANGED <<veil_color, peek_through_opacity, show_quick_start_on_startup,
                 is_visible, is_transparent_for_editing, is_peeking, focus_areas,
                 current, draw_start_x, draw_start_y, drawing_rect, grab,
                 shift_held, config_file>>

\* set_peek_through_opacity_dialog with the dialog's result.
SetPeekThroughOpacityDialog(result) ==
  /\ MenuOpen
  /\ peek_through_opacity' = result
  /\ alpha' = IF is_peeking THEN peek_through_opacity' ELSE alpha
  /\ ev' = Event("set_peek_opacity", 0, 0)
  /\ UNCHANGED gestures
  /\ uiFrame
  /\ UNCHANGED <<veil_color, veil_opacity, show_quick_start_on_startup,
                 is_visible, is_transparent_for_editing, is_peeking, focus_areas,
                 current, draw_start_x, draw_start_y, drawing_rect, grab,
                 shift_held, config_file>>

\* choose_color with the colour the chooser returned.
ChooseColor(new_color) ==
  /\ MenuOpen
  /\ veil_color' = IF new_color = transparency_key THEN veil_color ELSE new_color
  /\ ev' = Event("choose_color", 0, 0)
  /\ UNCHANGED gestures
  /\ uiFrame
  /\ UNCHANGED <<veil_opacity, peek_through_opacity, show_quick_start_on_startup,
                 is_visible, is_transparent_for_editing, is_peeking, alpha,
                 focus_areas, current, draw_start_x, draw_start_y, drawing_rect,
                 grab, shift_held, config_file>>

\* reset_to_black
ResetToBlack ==
  /\ MenuOpen
  /\ veil_color' = "#000000"
  /\ veil_opacity' = MaxOpacity
  /\ alpha' = update_opacity(alpha, veil_opacity', is_peeking, is_transparent_for_editing)
  /\ ev' = Event("reset_to_black", 0, 0)
  /\ UNCHANGED gestures
  /\ uiFrame
  /\ UNCHANGED <<peek_through_opacity, show_quick_start_on_startup, is_visible,
                 is_transparent_for_editing, is_peeking, focus_areas, current,
                 draw_start_x, draw_start_y, drawing_rect, grab, shift_held,
                 config_file>>

\* ---- deleting focus areas ------------------------------------------------
\* Faulty variant: FocusArea.current is left alone by delete().
CurrentAfterDeleteKept(i) == current

\* FocusArea.current after FocusArea.delete() of the area at index i.
CurrentAfterDelete(i) ==
  IF current = i THEN 0 ELSE IF current > i THEN current - 1 ELSE current

\* The held button's item after the area at index i is deleted: a deleted
\* item gets no further events, the canvas still does.
GrabAfterDelete(i) ==
  IF grab.kind \in {"rect", "handle"}
  THEN IF grab.idx = i THEN [kind |-> "gone", idx |-> 0]
       ELSE IF grab.idx > i THEN [grab EXCEPT !.idx = grab.idx - 1]
       ELSE grab
  ELSE grab

\* <Delete>: delete_current_focus_area (with no current area it only logs)
DeleteCurrent ==
  /\ is_visible
  /\ current # 0
  /\ focus_areas' = RemoveAt(focus_areas, current)
  /\ current' = CurrentAfterDelete(current)
  /\ grab' = GrabAfterDelete(current)
  /\ ev' = Event("delete_current", 0, 0)
  /\ UNCHANGED gestures
  /\ uiFrame
  /\ UNCHANGED <<veil_color, veil_opacity, peek_through_opacity,
                 show_quick_start_on_startup, is_visible,
                 is_transparent_for_editing, is_peeking, alpha, draw_start_x,
                 draw_start_y, drawing_rect, shift_held, config_file>>

\* <Button-3> on the move handle of area i: on_handle_right_click, between
\* gestures.
HandleRightClick(i) ==
  /\ is_visible
  /\ grab.kind = "none"
  /\ i \in 1..Len(focus_areas)
  /\ focus_areas' = RemoveAt(focus_areas, i)
  /\ current' = CurrentAfterDelete(i)
  /\ ev' = Event("handle_right_click", 0, 0)
  /\ UNCHANGED gestures
  /\ uiFrame
  /\ UNCHANGED <<veil_color, veil_opacity, peek_through_opacity,
                 show_quick_start_on_startup, is_visible,
                 is_transparent_for_editing, is_peeking, alpha, draw_start_x,
                 draw_start_y, drawing_rect, grab, shift_held, config_file>>

\* Faulty variant: on_leave clears FocusArea.current whichever area it
\* is on.
LeaveClearsAny(i) ==
  /\ is_visible
  /\ grab.kind = "none"
  /\ i \in 1..Len(focus_areas)
  /\ current' = 0
  /\ ev' = Event("leave", 0, 0)
  /\ UNCHANGED gestures
  /\ uiFrame
  /\ UNCHANGED <<veil_color, veil_opacity, peek_through_opacity,
                 show_quick_start_on_startup, is_visible,
                 is_transparent_for_editing, is_peeking, alpha, focus_areas,
                 draw_start_x, draw_start_y, drawing_rect, grab, shift_held,
                 config_file>>

\* <Leave> on the rectangle of area i: on_leave, between gestures.
Leave(i) ==
  /\ is_visible
  /\ grab.kind = "none"
  /\ i \in 1..Len(focus_areas)
  /\ current' = IF current = i THEN 0 ELSE current
  /\ ev' = Event("leave", 0, 0)
  /\ UNCHANGED gestures
  /\ uiFrame
  /\ UNCHANGED <<veil_color, veil_opacity, peek_through_opacity,
                 show_quick_start_on_startup, is_visible,
                 is_transparent_for_editing, is_peeking, alpha, focus_areas,
                 draw_start_x, draw_start_y, drawing_rect, grab, shift_held,
                 config_file>>

\* delete_all_focus_areas
DeleteAll ==
  /\ MenuOpen
  /\ focus_areas' = <<>>
  /\ current' = 0
  /\ ev' = Event("delete_all", 0, 0)
  /\ UNCHANGED gestures
  /\ uiFrame
  /\ UNCHANGED <<veil_color, veil_opacity, peek_through_opacity,
                 show_quick_start_on_startup, is_visible,
                 is_transparent_for_editing, is_peeking, alpha, draw_start_x,
                 draw_start_y, drawing_rect, grab, shift_held, config_file>>

\* ---- configuration file ---------------------------------------------------
\* The record save_config dumps.
ConfigRecord ==
  [exists |-> TRUE,
   veil_color |-> veil_color,
   veil_opacity |-> veil_opacity,
   peek_through_opacity |-> peek_through_opacity,
   show_quick_start_on_startup |-> show_quick_start_on_startup,
   focus_areas |-> [i \in 1..Len(focus_areas) |-> get_coords(focus_areas[i])]]

\* Faulty variant: the entry's x2, y2 are taken for a width and a height.
AreaFromCoordsAsSize(coords) ==
  NewFocusArea(coords[1], coords[2], coords[3], coords[4])

\* load_config: the focus area built from one focus_areas entry.
AreaFromCoords(coords) ==
  NewFocusArea(coords[1], coords[2], coords[3] - coords[1], coords[4] - coords[2])

\* What json.load gives for a file that is no JSON text.
Unparseable == [exists |-> TRUE, json |-> FALSE]

\* load_config: json.load returned an object (a dict).
IsObject(cfg) == "json" \notin DOMAIN cfg

\* Faulty variant: a missing key keeps the value the window holds.
ConfigGetKeeping(cfg, key, default) ==
  IF key \in DOMAIN cfg THEN cfg[key]
  ELSE CASE key = "veil_color" -> veil_color
         [] key = "veil_opacity" -> veil_opacity
         [] key = "peek_through_opacity" -> peek_through_opacity
         [] key = "show_quick_start_on_startup" -> show_quick_start_on_startup
         [] OTHER -> default

\* config.get(key, default)
ConfigGet(cfg, key, default) ==
  IF key \in DOMAIN cfg THEN cfg[key] ELSE default

\* A veil_color string that Tk does not take for a colour.
NotAColor == "none"
ValidColor(c) == c # NotAColor

\* The focus_areas entries the loop of load_config gets through.  A record
\* with bad_entry = i stands for a file whose i-th entry is a 4-element list
\* with an item that is no number, on which x2 - x1 raises.
EntriesRead(cfg) ==
  LET raw == ConfigGet(cfg, "focus_areas", <<>>)
  IN IF "bad_entry" \in DOMAIN cfg THEN SubSeq(raw, 1, cfg.bad_entry - 1) ELSE raw

\* load_config: the collection built from the record's focus_areas; an
\* entry whose length is not 4 is passed over.
LoadedAreas(cfg) ==
  LET ok == SelectSeq(EntriesRead(cfg), LAMBDA c : Len(c) = 4)
  IN [i \in 1..Len(ok) |-> AreaFromCoords(ok[i])]

\* The fields load_config may write, as a record.
Memory ==
  [veil_color |-> veil_color, veil_opacity |-> veil_opacity,
   peek_through_opacity |-> peek_through_opacity,
   show_quick_start_on_startup |-> show_quick_start_on_startup,
   alpha |-> alpha, focus_areas |-> focus_areas, current |-> current,
   outcome |-> "absent"]

\* load_config on file cfg with the fields m: the fields it leaves, and
\* whether it returned early ("absent"), ran through ("loaded") or raised
\* into its except clause ("error").
LoadResult(cfg, m, peeking, editing) ==
  IF ~cfg.exists THEN [m EXCEPT !.outcome = "absent"]
  ELSE IF ~IsObject(cfg) THEN [m EXCEPT !.outcome = "error"]
  ELSE
    LET assigned ==
          [m EXCEPT
             !.veil_color = ConfigGet(cfg, "veil_color", "#0C0000"),
             !.veil_opacity = ConfigGet(cfg, "veil_opacity", DefaultVeilOpacity),
             !.peek_through_opacity =
                ConfigGet(cfg, "peek_through_opacity", DefaultPeekThroughOpacity),
             !.show_quick_start_on_startup =
                ConfigGet(cfg, "show_quick_start_on_startup", TRUE)]
    IN IF ~ValidColor(assigned.veil_color)
       THEN [assigned EXCEPT !.outcome = "error"]
       ELSE [assigned EXCEPT
               !.alpha = update_opacity(m.alpha, assigned.veil_opacity,
                                        peeking, editing),
               !.focus_areas = LoadedAreas(cfg),
               !.current = 0,
               !.outcome = IF "bad_entry" \in DOMAIN cfg THEN "error" ELSE "loaded"]

\* save_config (the write succeeds)
SaveConfig ==
  /\ MenuOpen
  /\ config_file' = ConfigRecord
  /\ ev' = Event("save_config", 0, 0)
  /\ UNCHANGED gestures
  /\ uiFrame
  /\ UNCHANGED <<veil_color, veil_opacity, peek_through_opacity,
                 show_quick_start_on_startup, is_visible,
                 is_transparent_for_editing, is_peeking, alpha, focus_areas,
                 current, draw_start_x, draw_start_y, drawing_rect, grab, shift_held>>

\* load_config(show_message=True) from the menu
LoadConfig ==
  /\ MenuOpen
  /\ LET r == LoadResult(config_file, Memory, is_peeking, is_transparent_for_editing)
     IN /\ veil_color' = r.veil_color
        /\ veil_opacity' = r.veil_opacity
        /\ peek_through_opacity' = r.peek_through_opacity
        /\ show_quick_start_on_startup' = r.show_quick_start_on_startup
        /\ alpha' = r.alpha
        /\ focus_areas' = r.focus_areas
        /\ current' = r.current
        /\ ev' = Event(IF r.outcome = "error" THEN "load_error" ELSE "load_config", 0, 0)
  /\ UNCHANGED gestures
  /\ uiFrame
  /\ UNCHANGED <<is_visible, is_transparent_for_editing, is_peeking,
                 draw_start_x, draw_start_y, drawing_rect, grab, shift_held,
                 config_file>>

\* The file is written by something other than this run of the program (a
\* text editor, an earlier version, a copy from elsewhere).
FileReplaced(f) ==
  /\ running
  /\ config_file # f
  /\ config_file' = f
  /\ ev' = Event("file_replaced", 0, 0)
  /\ UNCHANGED <<veil_color, veil_opacity, peek_through_opacity,
                 show_quick_start_on_startup, is_visible,
                 is_transparent_for_editing, is_peeking, alpha, focus_areas,
                 current, draw_start_x, draw_start_y, drawing_rect, grab,
                 shift_held, gestures>>
  /\ UNCHANGED trayVars

\* The quick start guide's "don't show again" checkbox: on_checkbox_toggle.
CheckboxToggle ==
  /\ MenuOpen
  /\ show_quick_start_on_startup' = ~show_quick_start_on_startup
  /\ config_file' = [ConfigRecord EXCEPT
                       !.show_quick_start_on_startup = show_quick_start_on_startup']
  /\ ev' = Event("checkbox_toggle", 0, 0)
  /\ UNCHANGED gestures
  /\ uiFrame
  /\ UNCHANGED <<veil_color, veil_opacity, peek_through_opacity, is_visible,
                 is_transparent_for_editing, is_peeking, alpha, focus_areas,
                 current, draw_start_x, draw_start_y, drawing_rect, grab, shift_held>>

\* ---- initial state ---------------------------------------------------------
\* The fields as Focus_AreaWindow.__init__ sets them before it loads the
\* configuration.
Defaults ==
  [veil_color |-> "#0C0000", veil_opacity |-> DefaultVeilOpacity,
   peek_through_opacity |-> DefaultPeekThroughOpacity,
   show_quick_start_on_startup |-> TRUE,
   alpha |-> DefaultVeilOpacity, focus_areas |-> <<>>, current |-> 0,
   outcome |-> "absent"]

\* Focus_AreaWindow.__init__ with the configuration file f found at startup:
\* the defaults, then load_config(show_message=False).
Startup(f) ==
  /\ config_file = f
  /\ LET r == LoadResult(f, Defaults, FALSE, FALSE)
     IN /\ veil_color = r.veil_color
        /\ veil_opacity = r.veil_opacity
        /\ peek_through_opacity = r.peek_through_opacity
        /\ show_quick_start_on_startup = r.show_quick_start_on_startup
        /\ alpha = r.alpha
        /\ focus_areas = r.focus_areas
        /\ current = r.current
  /\ is_visible = TRUE
  /\ is_transparent_for_editing = FALSE
  /\ is_peeking = FALSE
  /\ draw_start_x = 0
  /\ draw_start_y = 0
  /\ drawing_rect = <<>>
  /\ grab = NoGrab
  /\ shift_held = FALSE
  /\ ev = Event("init", 0, 0)
  /\ gestures = 0
  /\ after_queue = <<>>
  /\ console_visible = FALSE
  /\ running = TRUE
  /\ posted = 0
  /\ toggled = 0
  /\ confirming = 0

\* A first run: no configuration file yet.
Init == Startup(NoFile)

\* ---- specifications ---------------------------------------------------------
\* Pointer positions of the opacity state machine: a draw gesture between
\* them is always too small to create an area.
OpacityPts == {<<20, 20>>, <<25, 25>>}
DialogInputs == {1, 55, 100}
Deltas == {-120, 120}

NextOpacity ==
  \/ \E p \in OpacityPts : Press(p[1], p[2])
  \/ \E p \in OpacityPts : Drag(p[1], p[2])
  \/ \E p \in OpacityPts : Release(p[1], p[2])
  \/ \E d \in Deltas : MouseWheel(d)
  \/ ShiftPress
  \/ ShiftRelease
  \/ ShiftUnseen
  \/ PauseShortcut
  \/ TogglePause
  \/ \E r \in DialogInputs : SetOpacityDialog(r)
  \/ \E r \in DialogInputs : SetPeekThroughOpacityDialog(r)

\* The opacity and visibility state machine with the draw gesture.
SpecOpacity == Init /\ [][NextOpacity]_vars

\* Pointer positions of the rectangle editor.
GeomX == {0, 10, 40}
GeomY == {0, 10, 30}
GeomPts == GeomX \X GeomY

NextGeom ==
  \/ \E p \in GeomPts : CountedPress(p[1], p[2])
  \/ \E p \in GeomPts : Drag(p[1], p[2])
  \/ \E p \in GeomPts : Release(p[1], p[2])
  \/ DeleteCurrent
  \/ DeleteAll

\* The rectangle editor: draw, move, resize, delete.
SpecGeom == Init /\ [][NextGeom]_vars

\* A configuration file as save_config writes it.
SavedFile(color, veil, peek, show, areas) ==
  [exists |-> TRUE, veil_color |-> color, veil_opacity |-> veil,
   peek_through_opacity |-> peek, show_quick_start_on_startup |-> show,
   focus_areas |-> areas]

\* Files holding one focus area of every size from MIN_SIZE to MaxCoord high.
ClassifyFiles ==
  {SavedFile("#0C0000", 100, 55, TRUE, <<<<x, 0, x + w, h>>>>) :
     x \in {0, 5}, w \in {10, 15, 40}, h \in MIN_SIZE..MaxCoord}

ClassifyPts == {<<2, 4>>}

InitClassify == \E f \in ClassifyFiles : Startup(f)

NextClassify ==
  \/ \E p \in ClassifyPts : Press(p[1], p[2])
  \/ \E p \in ClassifyPts : Drag(p[1], p[2])
  \/ \E p \in ClassifyPts : Release(p[1], p[2])

\* Started on a saved area of any height, then pressed near its corner.
SpecClassify == InitClassify /\ [][NextClassify]_vars

\* Pointer positions near the bottom right corner, near the top edge and
\* in the handle zone of the largest saved area.
ModePts == {<<35, 35>>, <<20, 5>>, <<2, 4>>}

NextMode ==
  \/ \E p \in ModePts : Press(p[1], p[2])
  \/ \E p \in ModePts : Release(p[1], p[2])

\* Started on a saved area of any size, then pressed and released at a
\* corner, at an edge and in the handle zone.
SpecMode == InitClassify /\ [][NextMode]_vars

\* The file a previous session may have left: two areas, the later one
\* above and to the left of the earlier one.
StartupFiles ==
  {NoFile,
   SavedFile("#123456", 55, 100, FALSE, <<<<10, 10, 40, 40>>, <<0, 0, 10, 10>>>>)}

ConfigPts == {<<10, 10>>, <<40, 40>>}
ConfigInputs == {70}
ConfigColors == {"#123456", transparency_key}

InitConfig == \E f \in StartupFiles : Startup(f)

NextConfig ==
  \/ \E p \in ConfigPts : CountedPress(p[1], p[2])
  \/ \E p \in ConfigPts : Drag(p[1], p[2])
  \/ \E p \in ConfigPts : Release(p[1], p[2])
  \/ \E r \in ConfigInputs : SetOpacityDialog(r)
  \/ \E r \in ConfigInputs : SetPeekThroughOpacityDialog(r)
  \/ \E c \in ConfigColors : ChooseColor(c)
  \/ ResetToBlack
  \/ CheckboxToggle
  \/ DeleteAll
  \/ SaveConfig
  \/ LoadConfig

\* Settings, areas and the configuration file.
SpecConfig == InitConfig /\ [][NextConfig]_vars

\* Files this run of the program did not write: no JSON at all, an empty
\* object, an object with some keys only and an entry of the wrong length,
\* a full record whose second entry holds a string, a full record whose
\* colour is no colour, a full record with opacities 0.0 and 1.5, a full
\* record whose entries list the corners in reverse order, and a full record
\* whose colour is the transparency key.
ForeignFiles ==
  {Unparseable,
   [exists |-> TRUE],
   [exists |-> TRUE, veil_opacity |-> 70,
    focus_areas |-> <<<<0, 0, 10>>, <<10, 10, 40, 40>>>>],
   [bad_entry |-> 2] @@
     SavedFile("#123456", 70, 70, FALSE, <<<<0, 0, 10, 10>>, <<0, 0, 0, 0>>>>),
   SavedFile(NotAColor, 70, 70, FALSE, <<>>),
   SavedFile("#123456", 0, 150, TRUE, <<>>),
   SavedFile("#123456", 70, 70, TRUE, <<<<40, 40, 10, 10>>, <<0, 30, 10, 0>>>>),
   SavedFile(transparency_key, 70, 70, TRUE, <<>>)}

NextLoad ==
  \/ \E p \in ConfigPts : CountedPress(p[1], p[2])
  \/ \E p \in ConfigPts : Drag(p[1], p[2])
  \/ \E p \in ConfigPts : Release(p[1], p[2])
  \/ \E r \in ConfigInputs : SetOpacityDialog(r)
  \/ \E r \in ConfigInputs : SetPeekThroughOpacityDialog(r)
  \/ \E c \in ConfigColors : ChooseColor(c)
  \/ ResetToBlack
  \/ CheckboxToggle
  \/ \E f \in ForeignFiles : FileReplaced(f)
  \/ LoadConfig

\* Settings and areas against configuration files of any origin.
SpecLoad == Init /\ [][NextLoad]_vars

\* Pointer positions of the selection: on the handle of the saved file's
\* second area, on the handle of its first area, and on a corner.
CurrentPts == {<<0, 0>>, <<10, 20>>, <<40, 40>>}
AreaIndexes == 1..(MaxAreas + 1)

NextCurrent ==
  \/ \E p \in CurrentPts : CountedPress(p[1], p[2])
  \/ \E p \in CurrentPts : Drag(p[1], p[2])
  \/ \E p \in CurrentPts : Release(p[1], p[2])
  \/ \E i \in AreaIndexes : Leave(i)
  \/ \E i \in AreaIndexes : HandleRightClick(i)
  \/ DeleteCurrent
  \/ DeleteAll
  \/ LoadConfig

\* Selecting areas by their handles and deleting them in every way.
SpecCurrent == InitConfig /\ [][NextCurrent]_vars

\* One pointer position and one dialog input are enough next to the tray.
TrayPts == {<<20, 20>>}
TrayInputs == {55}

NextTray ==
  \/ \E item \in TrayItems : TrayPost(item)
  \/ RunAfter
  \/ \E p \in TrayPts : Press(p[1], p[2])
  \/ \E p \in TrayPts : Drag(p[1], p[2])
  \/ \E p \in TrayPts : Release(p[1], p[2])
  \/ ShiftPress
  \/ ShiftRelease
  \/ ShiftUnseen
  \/ PauseShortcut
  \/ PauseShortcutPaused
  \/ DoubleClick
  \/ \E r \in TrayInputs : SetOpacityDialog(r)
  \/ \E c \in BOOLEAN : ConfirmAnswer(c)

\* The tray thread posting requests while the main loop handles events.
SpecTray == Init /\ [][NextTray]_vars

\* ======================= claims ==============================================
Coords(fa) == <<fa.x1, fa.y1, fa.x2, fa.y2>>
Width(fa) == fa.x2 - fa.x1
Height(fa) == fa.y2 - fa.y1

\* The opacity the design resolves for a state: editing peek, else Shift
\* peek, else the veil's own opacity.
EffectiveOpacity ==
  IF is_transparent_for_editing THEN 30
  ELSE IF is_peeking THEN peek_through_opacity
  ELSE veil_opacity

\* C1: in every reachable state where the veil is visible, the alpha last
\* applied to the window equals the effective opacity of the state.
C1_AppliedIsEffective ==
  is_visible => alpha = EffectiveOpacity

\* C2: a completed draw gesture (press on empty canvas, drags, release)
\* appends exactly one area with the preview's bounds when the preview is at
\* least 10 x 10, and leaves the collection unchanged otherwise.
C2_DrawGestureAppends ==
  [][\A p \in GeomPts :
       (grab.kind = "canvas" /\ ev = "drag" /\ Release(p[1], p[2])) =>
         LET x1 == Min(draw_start_x, p[1])
             y1 == Min(draw_start_y, p[2])
             x2 == Max(draw_start_x, p[1])
             y2 == Max(draw_start_y, p[2])
         IN IF x2 - x1 >= 10 /\ y2 - y1 >= 10
            THEN /\ Len(focus_areas') = Len(focus_areas) + 1
                 /\ Coords(focus_areas'[Len(focus_areas')]) = <<x1, y1, x2, y2>>
                 /\ \A i \in 1..Len(focus_areas) :
                      Coords(focus_areas'[i]) = Coords(focus_areas[i])
            ELSE focus_areas' = focus_areas]_vars

\* C3: every focus area in the collection is at least MIN_SIZE wide and
\* MIN_SIZE high, after any draw gestures, move drags and resize drags.
C3_MinSize ==
  \A i \in 1..Len(focus_areas) :
    Width(focus_areas[i]) >= 10 /\ Height(focus_areas[i]) >= 10

\* C3 witness: an area that a resize drag has just brought to the minimum
\* width (the pointer is the anchor of the accepted step).
C3_Witness ==
  /\ ev = "drag"
  /\ \E i \in 1..Len(focus_areas) :
       /\ focus_areas[i].is_dragging
       /\ focus_areas[i].resize_mode \in {"e", "ne", "se"}
       /\ focus_areas[i].drag_start_x = focus_areas[i].x2
       /\ Width(focus_areas[i]) = 10
       /\ Height(focus_areas[i]) = 20

\* The bounds a resize step in mode m with pointer (px, py) asks for.
Asked(fa, m, px, py) ==
  <<IF m \in {"w", "nw", "sw"} THEN px ELSE fa.x1,
    IF m \in {"n", "ne", "nw"} THEN py ELSE fa.y1,
    IF m \in {"e", "ne", "se"} THEN px ELSE fa.x2,
    IF m \in {"s", "se", "sw"} THEN py ELSE fa.y2>>

\* The worked example: (100,100)-(300,250) grabbed at its se corner.  It
\* does not depend on the state, so C4 evaluates it on the first step only.
ScenarioA ==
  LET fa0 == on_press(NewFocusArea(100, 100, 200, 150), 300, 250)
      fa1 == on_drag(fa0, 130, 110)
      fa2 == on_drag(fa1, 105, 108)
  IN /\ fa0.resize_mode = "se"
     /\ Coords(fa1) = <<100, 100, 130, 110>>
     /\ Coords(fa2) = <<100, 100, 130, 110>>

\* C4: a resize drag step in mode m with pointer (px, py) moves exactly the
\* edges m names to the pointer when the result is at least 10 x 10 (10
\* itself is accepted) and otherwise leaves all four coordinates as they
\* were; the worked example (100,100)-(300,250), se, behaves as stated.
C4_ResizeStep ==
  [][/\ (ev = "init") => ScenarioA
     /\ (grab.kind = "rect" /\ ev' = "drag") =>
          \A p \in GeomPts :
            (/\ focus_areas[grab.idx].is_dragging
             /\ focus_areas[grab.idx].resize_mode \in ResizeModes
             /\ Drag(p[1], p[2])) =>
              LET fa == focus_areas[grab.idx]
                  c == Asked(fa, fa.resize_mode, p[1], p[2])
              IN Coords(focus_areas'[grab.idx]) =
                   IF c[3] - c[1] >= 10 /\ c[4] - c[2] >= 10 THEN c ELSE Coords(fa)]_vars

\* C4 witness: a se resize step has just been accepted at exactly the
\* minimum height.
C4_Witness ==
  /\ ev = "drag"
  /\ grab.kind = "rect"
  /\ LET fa == focus_areas[grab.idx]
     IN /\ fa.resize_mode = "se"
        /\ fa.drag_start_x = fa.x2
        /\ fa.drag_start_y = fa.y2
        /\ Height(fa) = 10
        /\ Width(fa) = 40

\* C5: with the veil visible, no peek and no draw gesture, and the peek
\* opacity below the veil's, Shift down applies the peek opacity and the
\* following Shift up applies the veil opacity again; Shift down while
\* paused or already peeking changes nothing; Shift down with the peek
\* opacity at or above the veil's switches peeking on and leaves the
\* applied alpha as it was.
C5_ShiftRoundTrip ==
  [][/\ (/\ ev' = "shift_press"
         /\ is_visible /\ ~is_peeking /\ ~is_transparent_for_editing
         /\ peek_through_opacity < veil_opacity) =>
          (is_peeking' /\ alpha' = peek_through_opacity)
     /\ (/\ ev = "shift_press" /\ ev' = "shift_release"
         /\ is_visible /\ is_peeking /\ ~is_transparent_for_editing
         /\ peek_through_opacity < veil_opacity) =>
          (~is_peeking' /\ alpha' = veil_opacity)
     /\ (ev' = "shift_press" /\ (~is_visible \/ is_peeking)) =>
          UNCHANGED <<is_peeking, alpha, is_visible, is_transparent_for_editing,
                      veil_opacity, peek_through_opacity>>
     /\ (/\ ev' = "shift_press"
         /\ is_visible /\ ~is_peeking
         /\ peek_through_opacity >= veil_opacity) =>
          (is_peeking' /\ alpha' = alpha)]_vars

\* C5 witness: Shift has gone down and up again on the default veil
\* (1.0, peek 0.55) and the alpha is back at 1.0.
C5_Witness ==
  /\ ev = "shift_release"
  /\ is_visible /\ ~is_peeking /\ ~is_transparent_for_editing
  /\ veil_opacity = 100 /\ peek_through_opacity = 55
  /\ alpha = 100

\* C6: a draw gesture during which Shift was pressed and that is released
\* with a too-small preview creates no area and ends in Normal mode (no
\* editing peek, no Shift peek, the applied alpha is the veil opacity),
\* whether or not Shift is still held at the release.
C6_TooSmallReleaseEndsNormal ==
  [][\A p \in OpacityPts :
       (/\ grab.kind = "canvas"
        /\ is_transparent_for_editing
        /\ ev = "shift_press"
        /\ Release(p[1], p[2])) =>
         /\ focus_areas' = focus_areas
         /\ ~is_transparent_for_editing'
         /\ ~is_peeking'
         /\ alpha' = veil_opacity']_vars

\* The worked example: five wheel steps down from 1.0.  It does not depend
\* on the state, so C7 evaluates it on the first step only.
ScenarioB ==
  LET d == -120
      v5 == WheelOpacity(WheelOpacity(WheelOpacity(WheelOpacity(
              WheelOpacity(100, d), d), d), d), d)
  IN v5 = 95 /\ update_opacity(100, v5, FALSE, FALSE) = 95

\* C7: a wheel step moves the veil opacity by exactly 0.01 (up for a
\* positive delta, down otherwise), kept within [0.01, 1.0]; with neither
\* Shift peek nor a draw gesture active the new value is applied to the
\* window in the same step; five steps down from 1.0 give 0.95.
C7_WheelStep ==
  [][/\ (ev = "init") => ScenarioB
     /\ (ev' = "wheel_up") =>
          veil_opacity' = IF veil_opacity = 100 THEN 100 ELSE veil_opacity + 1
     /\ (ev' = "wheel_down") =>
          veil_opacity' = IF veil_opacity = 1 THEN 1 ELSE veil_opacity - 1
     /\ (/\ ev' \in {"wheel_up", "wheel_down"}
         /\ ~is_peeking /\ ~is_transparent_for_editing) =>
          alpha' = veil_opacity']_vars

\* C7 witness: the wheel has just stepped the visible veil down to 0.95
\* and 0.95 is the applied alpha.
C7_Witness ==
  /\ ev = "wheel_down"
  /\ is_visible /\ ~is_peeking /\ ~is_transparent_for_editing
  /\ veil_opacity = 95
  /\ alpha = 95

\* C8: after every committed resize step the move handle's centre is at
\* (x1, y1 + 0.382 * (y2 - y1)) of the new bounds.
C8_HandleAfterResize ==
  [][(grab.kind = "rect" /\ ev' = "drag") =>
     \A p \in GeomPts :
       (/\ focus_areas[grab.idx].is_dragging
        /\ focus_areas[grab.idx].resize_mode \in ResizeModes
        /\ Drag(p[1], p[2])
        /\ LET c == Asked(focus_areas[grab.idx], focus_areas[grab.idx].resize_mode,
                          p[1], p[2])
           IN c[3] - c[1] >= 10 /\ c[4] - c[2] >= 10) =>
         LET fb == focus_areas'[grab.idx]
         IN /\ fb.hx = fb.x1
            /\ fb.hy = fb.y1 * 1000 + 382 * (fb.y2 - fb.y1)]_vars

\* C8 witness: a resize has been committed on an area whose handle a body
\* move had left behind (width 20 is only produced by a resize), and the
\* handle is back on the golden-ratio point.
C8_Witness ==
  /\ ev = "drag"
  /\ grab.kind = "rect"
  /\ LET fa == focus_areas[grab.idx]
     IN /\ fa.resize_mode \in ResizeModes
        /\ Width(fa) = 20
        /\ fa.hx = fa.x1
        /\ fa.hy = fa.y1 * 1000 + 382 * (fa.y2 - fa.y1)

\* C9: for every focus area (at least 10 x 10), the point
\* (x1, y1 + 0.382 * height) is classified as move, never as an edge or a
\* corner.
C9_HandleCentreIsMove ==
  \A i \in 1..Len(focus_areas) :
    LET fa == focus_areas[i]
    IN (Width(fa) >= 10 /\ Height(fa) >= 10) =>
         get_resize_mode(fa, fa.x1, fa.y1 * 1000 + 382 * Height(fa)) = "move"

\* C9 witness: a press on the body within 10 pixels of the top and left
\* edges, yet inside the handle's band, has been classified as move.
C9_Witness ==
  /\ ev = "press"
  /\ grab.kind = "rect"
  /\ LET fa == focus_areas[grab.idx]
     IN /\ fa.resize_mode = "move"
        /\ fa.drag_start_x - fa.x1 < 10
        /\ fa.drag_start_y - fa.y1 < 10

\* C10: loading right after saving leaves the collection (coordinates, in
\* order) and the four settings as they were when saved, and a second load
\* of the same file changes nothing the first load had set.
C10_SaveLoadRoundTrip ==
  [][/\ (ev = "save_config" /\ ev' = "load_config") =>
          /\ Len(focus_areas') = Len(focus_areas)
          /\ \A i \in 1..Len(focus_areas) :
               Coords(focus_areas'[i]) = Coords(focus_areas[i])
          /\ UNCHANGED <<veil_color, veil_opacity, peek_through_opacity,
                         show_quick_start_on_startup>>
     /\ (ev = "load_config" /\ ev' = "load_config") =>
          UNCHANGED <<veil_color, veil_opacity, peek_through_opacity,
                      show_quick_start_on_startup, is_visible,
                      is_transparent_for_editing, is_peeking, alpha,
                      focus_areas, current, draw_start_x, draw_start_y,
                      drawing_rect, grab, shift_held, config_file>>]_vars

\* C10 witness: a file saved in this session (two areas, the second one
\* moved; opacities set by the dialogs) has been loaded back.
C10_Witness ==
  /\ ev = "load_config"
  /\ config_file.exists
  /\ config_file.veil_opacity = 70
  /\ config_file.focus_areas = <<<<10, 10, 40, 40>>, <<30, 30, 40, 40>>>>
  /\ Len(focus_areas) = 2
  /\ Coords(focus_areas[2]) = <<30, 30, 40, 40>>
  /\ veil_opacity = 70

\* C11: a load that reports an error leaves veil colour, both opacities,
\* the quick-start flag and the collection exactly as they were.
C11_FailedLoadChangesNothing ==
  [][(ev' = "load_error") =>
       UNCHANGED <<veil_color, veil_opacity, peek_through_opacity,
                   show_quick_start_on_startup, focus_areas>>]_vars

\* C12: loading a parseable record sets every setting the record omits to
\* its default (#0C0000, 1.0, 0.55, true), whatever the window held, and a
\* record without focus_areas leaves the collection empty.
C12_MissingFieldsDefault ==
  [][(ev' = "load_config" /\ config_file.exists) =>
       /\ ("veil_color" \notin DOMAIN config_file) => veil_color' = "#0C0000"
       /\ ("veil_opacity" \notin DOMAIN config_file) => veil_opacity' = 100
       /\ ("peek_through_opacity" \notin DOMAIN config_file) =>
            peek_through_opacity' = 55
       /\ ("show_quick_start_on_startup" \notin DOMAIN config_file) =>
            show_quick_start_on_startup' = TRUE
       /\ ("focus_areas" \notin DOMAIN config_file) => focus_areas' = <<>>]_vars

\* C12 witness: the empty object has been loaded and every setting is at
\* its default, the collection empty.
C12_Witness ==
  /\ ev = "load_config"
  /\ config_file = [exists |-> TRUE]
  /\ veil_color = "#0C0000"
  /\ veil_opacity = 100
  /\ peek_through_opacity = 55
  /\ show_quick_start_on_startup = TRUE
  /\ focus_areas = <<>>

\* C13: FocusArea.current is always none or a member of the collection; a
\* step that deletes areas (Delete key, right-click on a handle, delete-all,
\* the delete-all of a load) leaves it none or on the very area it was on;
\* and Delete with current set removes that area and no other.
C13_CurrentIsMember ==
  /\ [](current \in 0..Len(focus_areas))
  /\ [][/\ (ev' \in {"delete_current", "handle_right_click", "delete_all",
                     "load_config", "load_error"}) =>
             \/ current' = 0
             \/ /\ current # 0
                /\ focus_areas'[current'] = focus_areas[current]
        /\ (ev' = "delete_current") =>
             /\ current # 0
             /\ Len(focus_areas') = Len(focus_areas) - 1
             /\ \A j \in 1..Len(focus_areas') :
                  focus_areas'[j] = focus_areas[IF j < current THEN j ELSE j + 1]]_vars

\* C13 witness: the Delete key has removed the first of two areas, the
\* one selected by its handle; the other one is left and current is none.
C13_Witness ==
  /\ ev = "delete_current"
  /\ current = 0
  /\ Len(focus_areas) = 1
  /\ Coords(focus_areas[1]) = <<0, 0, 10, 10>>

\* Toggle requests waiting in the after queue.
PendingToggles ==
  Cardinality({i \in 1..Len(after_queue) : after_queue[i] = "toggle_pause"})

\* C14: a step of the tray thread (the only steps that lengthen the after
\* queue) writes no field of the window; every toggle request posted is
\* either still waiting or has been carried out, each one once, and
\* carrying one out flips is_visible: with the queue drained, k posted
\* requests have made exactly k visibility toggles.
C14_TrayOnlyPosts ==
  /\ [](posted = toggled + PendingToggles)
  /\ [][/\ (Len(after_queue') > Len(after_queue)) =>
             /\ Len(after_queue') = Len(after_queue) + 1
             /\ UNCHANGED <<veil_color, veil_opacity, peek_through_opacity,
                            show_quick_start_on_startup, is_visible,
                            console_visible, is_transparent_for_editing,
                            is_peeking, alpha, focus_areas, current,
                            draw_start_x, draw_start_y, drawing_rect,
                            config_file, running>>
        /\ (toggled' # toggled) =>
             /\ toggled' = toggled + 1
             /\ is_visible' = ~is_visible
             /\ Len(after_queue') = Len(after_queue) - 1
        /\ (/\ Len(after_queue') < Len(after_queue)
            /\ Head(after_queue) = "toggle_pause") =>
             /\ toggled' = toggled + 1
             /\ is_visible' = ~is_visible]_vars

\* C14 witness: three toggle requests were posted while the user was in
\* a draw gesture, all three have run, and the veil is hidden.
C14_Witness ==
  /\ posted = 3
  /\ toggled = 3
  /\ after_queue = <<>>
  /\ ~is_visible
  /\ is_transparent_for_editing
  /\ ev = "tray_toggle"

\* C15: both opacities are within [0.01, 1.0] in every reachable state.
C15_OpacitiesInRange ==
  /\ veil_opacity \in 1..100
  /\ peek_through_opacity \in 1..100

\* C16: the release that ends a draw gesture (a press on empty canvas that
\* switched the editing peek on) switches the editing peek off, wherever
\* the press was and whatever the release creates.
C16_ReleaseEndsEditingPeek ==
  [][\A p \in GeomPts :
       (/\ grab.kind = "canvas"
        /\ is_transparent_for_editing
        /\ Release(p[1], p[2])) =>
         ~is_transparent_for_editing']_vars

\* C17: while a draw gesture is in progress on the visible veil the applied
\* alpha is 0.30, also when Shift goes down or up during the gesture.
C17_EditingPeekWins ==
  (is_visible /\ grab.kind = "canvas" /\ is_transparent_for_editing) => alpha = 30

\* C18: in every reachable state the handle centre of every area is at
\* (x1, y1 + 0.382 * height) of the area's bounds.
C18_HandleFollowsBounds ==
  \A i \in 1..Len(focus_areas) :
    /\ focus_areas[i].hx = focus_areas[i].x1
    /\ focus_areas[i].hy =
         focus_areas[i].y1 * 1000 + 382 * Height(focus_areas[i])

\* A step in which the main loop ran the handler called name (a tray post
\* runs no handler and leaves the last handler's name in place).
HandlerStep(name) ==
  ev' = name /\ Len(after_queue') <= Len(after_queue)

\* C19 as stated: the pause shortcut, a canvas double-click and a tray
\* toggle each flip the visibility.
C19_EveryTriggerFlips ==
  [][(\/ HandlerStep("pause_shortcut")
      \/ HandlerStep("double_click")
      \/ HandlerStep("tray_toggle")) =>
       is_visible' = ~is_visible]_vars

\* C19 amended: a tray toggle and a canvas double-click flip the
\* visibility; the pause shortcut only pauses: it hides a visible veil
\* and leaves a paused one paused.
C19_ShortcutOnlyPauses ==
  [][/\ (HandlerStep("double_click") \/ HandlerStep("tray_toggle")) =>
          is_visible' = ~is_visible
     /\ HandlerStep("pause_shortcut") => ~is_visible']_vars

\* C19 witness: the shortcut has been handled on a veil that is paused,
\* after the tray had toggled it once.
C19_Witness ==
  /\ ev = "pause_shortcut"
  /\ ~is_visible
  /\ shift_held
  /\ posted = 1
  /\ toggled = 1

\* C20: when the veil is shown again the applied alpha is the effective
\* opacity of the mode held at that moment, and pausing or resuming leaves
\* the collection, both opacities and current as they were.
C20_ResumeAppliesEffective ==
  [][(is_visible' # is_visible) =>
       /\ is_visible' => alpha' = (IF is_transparent_for_editing' THEN 30
                                   ELSE IF is_peeking' THEN peek_through_opacity'
                                   ELSE veil_opacity')
       /\ UNCHANGED <<focus_areas, veil_opacity, peek_through_opacity,
                      current>>]_vars

\* C21: Shift up while peeking ends the peek; with no draw gesture in
\* progress the applied alpha becomes the veil opacity, with one in progress
\* it is the editing-peek value and becomes the veil opacity at the
\* gesture's release; Shift up while not peeking changes nothing.
C21_ShiftUpEndsPeek ==
  [][/\ (ShiftRelease /\ is_peeking) =>
          /\ ~is_peeking'
          /\ alpha' = (IF grab.kind = "canvas" THEN 30 ELSE veil_opacity)
     /\ (ShiftRelease /\ ~is_peeking) =>
          UNCHANGED <<is_peeking, alpha, veil_opacity, peek_through_opacity,
                      is_transparent_for_editing, is_visible>>
     /\ \A p \in OpacityPts :
          (grab.kind = "canvas" /\ ~is_peeking /\ Release(p[1], p[2])) =>
            alpha' = veil_opacity]_vars

\* C22: in every reachable state where the veil is visible, Shift-peek is
\* on and no draw gesture is in progress, the applied alpha is at most the
\* veil opacity.
C22_PeekNeverMoreOpaque ==
  (/\ is_visible /\ is_peeking
   /\ ~is_transparent_for_editing /\ grab.kind # "canvas") =>
    alpha <= veil_opacity

\* A press on the handle of an area sets current to that area, and the
\* pointer leaving the rectangle of area i clears current iff current is i.
HandlePressAndLeave ==
  /\ \A p \in CurrentPts :
       (CountedPress(p[1], p[2]) /\ TopItem(p[1], p[2]).kind = "handle") =>
         current' = TopItem(p[1], p[2]).idx
  /\ \A i \in AreaIndexes :
       Leave(i) => current' = (IF current = i THEN 0 ELSE current)

\* C23 as stated: a handle press on F sets current to F, the release that
\* ends the handle gesture clears current, and the pointer leaving F's
\* rectangle clears current iff current is F.
C23_HandleReleaseClearsCurrent ==
  [][/\ HandlePressAndLeave
     /\ \A p \in CurrentPts :
          (grab.kind = "handle" /\ Release(p[1], p[2])) => current' = 0]_vars

\* C23 amended: a handle press on F sets current to F, the release that
\* ends the handle gesture leaves current as it is (after press-then-release
\* on a handle current is still F), and the pointer leaving F's rectangle
\* clears current iff current is F.
C23_HandleReleaseKeepsCurrent ==
  [][/\ HandlePressAndLeave
     /\ \A p \in CurrentPts :
          (grab.kind = "handle" /\ Release(p[1], p[2])) =>
            /\ current' = current
            /\ (ev = "press") => current' = grab.idx]_vars

\* C23 witness: the handle of the first area has been pressed and released
\* and current is still that area.
C23_Witness ==
  /\ ev = "release"
  /\ gestures = 1
  /\ grab.kind = "none"
  /\ current = 1
  /\ Len(focus_areas) = 2

\* C24: a press on the rectangle or on the handle of an existing area
\* starts no draw gesture: the editing peek and the applied alpha are left
\* as they were, no anchor is recorded, no preview exists while the item's
\* gesture lasts, and the release that ends it appends no area.
C24_ItemPressStartsNoDraw ==
  /\ []((grab.kind \in {"rect", "handle", "gone"}) =>
          (NoAnchor /\ drawing_rect = <<>>))
  /\ [][/\ (grab.kind = "none" /\ grab'.kind \in {"rect", "handle"}) =>
             UNCHANGED <<is_transparent_for_editing, alpha, draw_start_x,
                         draw_start_y, drawing_rect>>
        /\ (grab.kind \in {"rect", "handle", "gone"} /\ grab'.kind = "none") =>
             /\ Len(focus_areas') = Len(focus_areas)
             /\ UNCHANGED <<is_transparent_for_editing, alpha>>]_vars

\* C24 witness: the press was on a point that lies in the rectangles of two
\* areas; the later one has the gesture and no draw gesture has begun.
C24_Witness ==
  /\ ev = "press"
  /\ grab.kind = "rect"
  /\ Len(focus_areas) = 2
  /\ grab.idx = 2
  /\ \A i \in 1..2 :
       HitRect(focus_areas[i], focus_areas[2].drag_start_x,
               focus_areas[2].drag_start_y)
  /\ ~is_transparent_for_editing
  /\ NoAnchor

\* C25: the main loop starts a posted callback only when no handler is in
\* progress; in particular none starts while quit_application waits for
\* the answer to its confirmation dialog.
C25_OneHandlerAtATime ==
  [][(Len(after_queue') < Len(after_queue)) => confirming = 0]_vars

\* The classification as the design words it, for integer pointer
\* coordinates: the handle zone first, then the letter of the near
\* horizontal edge joined with the letter of the near vertical edge.
RefMode(fa, px, py) ==
  LET handleY == fa.y1 * 1000 + 382 * (fa.y2 - fa.y1)
      inZone == /\ Abs(px - fa.x1) < 15
                /\ handleY - 12000 <= py * 1000
                /\ py * 1000 <= handleY + 12000
      vert == IF Abs(py - fa.y1) < 10 THEN "n"
              ELSE IF Abs(py - fa.y2) < 10 THEN "s" ELSE ""
      horiz == IF Abs(px - fa.x1) < 10 THEN "w"
               ELSE IF Abs(px - fa.x2) < 10 THEN "e" ELSE ""
  IN IF inZone \/ (vert = "" /\ horiz = "") THEN "move" ELSE vert \o horiz

\* C26: for every area (each saved area, as loaded) and every pointer
\* position get_resize_mode answers what the reference classification
\* answers, which is always one of the nine modes; and the mode a press
\* recorded is the reference's mode for the pressed point.
C26_ClassifyIsReference ==
  \A i \in 1..Len(focus_areas) :
    LET fa == focus_areas[i]
    IN /\ (ev = "init") =>
            \A px \in 0..MaxCoord, py \in 0..MaxCoord :
              /\ get_resize_mode(fa, px, py * Scale) = RefMode(fa, px, py)
              /\ get_resize_mode(fa, px, py * Scale) \in Modes
       /\ (ev = "press" /\ grab = [kind |-> "rect", idx |-> i]) =>
            fa.resize_mode = RefMode(fa, fa.drag_start_x, fa.drag_start_y)

\* C26 witness: a press near the bottom and right edges of a 40 x 40 area
\* has been classified as the corner se.
C26_Witness ==
  /\ ev = "press"
  /\ grab.kind = "rect"
  /\ LET fa == focus_areas[grab.idx]
     IN /\ Coords(fa) = <<0, 0, 40, 40>>
        /\ fa.drag_start_x = 35 /\ fa.drag_start_y = 35
        /\ fa.resize_mode = "se"

\* C27: during a move drag (a body press classified as move, or a handle
\* press) every drag step translates the rectangle by the pointer's
\* displacement since the previous step and sets the anchor to the pointer;
\* width and height stay, and the offset of the bounds from the anchor
\* stays, so that after a press at p0 and drags ending at pn the bounds are
\* the original bounds translated by pn - p0.
C27_MoveTranslates ==
  [][(/\ grab.kind \in {"rect", "handle"}
      /\ ev' = "drag"
      /\ focus_areas[grab.idx].resize_mode = "move") =>
       \A p \in GeomPts :
         Drag(p[1], p[2]) =>
           LET fa == focus_areas[grab.idx]
               fb == focus_areas'[grab.idx]
               dx == p[1] - fa.drag_start_x
               dy == p[2] - fa.drag_start_y
           IN /\ Coords(fb) = <<fa.x1 + dx, fa.y1 + dy, fa.x2 + dx, fa.y2 + dy>>
              /\ fb.drag_start_x = p[1] /\ fb.drag_start_y = p[2]
              /\ Width(fb) = Width(fa) /\ Height(fb) = Height(fa)
              /\ fb.x1 - fb.drag_start_x = fa.x1 - fa.drag_start_x
              /\ fb.y1 - fb.drag_start_y = fa.y1 - fa.drag_start_y]_vars

\* C27 witness: a body move has carried a rectangle away from where it was
\* drawn (its handle still marks the place) and the anchor is the pointer.
C27_Witness ==
  /\ ev = "drag"
  /\ grab.kind = "rect"
  /\ LET fa == focus_areas[grab.idx]
     IN /\ fa.resize_mode = "move"
        /\ fa.hx # fa.x1
        /\ fa.drag_start_x - fa.x1 = 10

C29_PeekOnlyWhileHeld ==
  (is_visible /\ is_peeking) => shift_held

\* C30: the veil colour is never the transparency key, after any
\* choose-color, reset-to-black and load; and a choose-color request for the
\* key leaves the veil colour as it was.
C30_VeilNeverKeyColour ==
  /\ [](veil_color # transparency_key)
  /\ [][(ChooseColor(transparency_key)) => veil_color' = veil_color]_vars

====
